---------------------------- MODULE Spec2Model ----------------------------
(***************************************************************************)
(* Model of undocker/main.py: the UnDocker class that converts an unRAID   *)
(* Docker XML template into a Docker Compose document.                     *)
(*                                                                         *)
(* Python strings are TLA+ strings, handled character by character with    *)
(* Len, SubSeq, Head, Tail and \o.  Python dictionaries are functions from *)
(* their keys to their values, Python lists are sequences.                 *)
(***************************************************************************)
EXTENDS Integers, Sequences, FiniteSets, TLC

(***************************************************************************)
(* Bounds of the model.                                                    *)
(***************************************************************************)
\* the longest list of Config elements of a template
MaxConfigs == 2
\* the longest ExtraParams string, in whitespace-separated tokens
MaxTokens == 3

(***************************************************************************)
(* Python values.                                                          *)
(***************************************************************************)
\* Python's None.  It has to be comparable with strings (an attribute
\* lookup yields a string or None), so it is a reserved string that no text
\* of the modelled templates equals.
None == "<None>"

\* str(x) and the f-string conversion {x}: None is written as "None".
Str(x) == IF x = None THEN "None" ELSE x

\* The empty list [] where it stands among strings (a value argparse
\* stores in the namespace): a reserved string, as None is.
NoValues == "<[]>"

\* bool(x) of a string, None or the empty list, as in "if x:".
Truthy(x) == x \notin {None, "", NoValues}

\* The i-th character of s.
Char(s, i) == SubSeq(s, i, i)

\* s.startswith(p)
StartsWith(s, p) == Len(p) <= Len(s) /\ SubSeq(s, 1, Len(p)) = p

\* s.endswith(p)
EndsWith(s, p) == Len(p) <= Len(s) /\ SubSeq(s, Len(s) - Len(p) + 1, Len(s)) = p

\* c in s, for a character c
Contains(s, c) == \E i \in 1..Len(s) : Char(s, i) = c

\* s.find(c) for a character c, 1-based; 0 when c does not occur.
IndexOf(s, c) ==
    IF Contains(s, c) THEN CHOOSE i \in 1..Len(s) :
                               Char(s, i) = c /\ \A j \in 1..(i - 1) : Char(s, j) # c
    ELSE 0

\* s.rfind(c) for a character c, 1-based; 0 when c does not occur.
LastIndexOf(s, c) ==
    IF Contains(s, c) THEN CHOOSE i \in 1..Len(s) :
                               Char(s, i) = c /\ \A j \in (i + 1)..Len(s) : Char(s, j) # c
    ELSE 0

\* s.replace(c, r) for a single character c: every occurrence, left to right,
\* the replacement text is not scanned again.
RECURSIVE Replace(_, _, _)
Replace(s, c, r) ==
    IF s = "" THEN ""
    ELSE (IF Head(s) = c THEN r ELSE Head(s)) \o Replace(Tail(s), c, r)

\* s.rstrip(c) for a single character c.
RECURSIVE RStrip(_, _)
RStrip(s, c) ==
    IF s # "" /\ Char(s, Len(s)) = c THEN RStrip(SubSeq(s, 1, Len(s) - 1), c) ELSE s

\* s consists of the character c only (s == c * len(s)).
AllChar(s, c) == \A i \in 1..Len(s) : Char(s, i) = c

\* The decimal digits int() and the pattern \d read: the ASCII digits and
\* the digits of the other scripts (Unicode category Nd) that a string
\* literal of this module can hold, one row of ten per script from its zero
\* to its nine.  The rows after the first start at U+06F0, U+07C0, U+09E6,
\* U+0AE6, U+0BE6, U+0CE6, U+0DE6, U+0ED0, U+1090, U+17E0, U+19D0, U+1A80,
\* U+1A90, U+1BB0, U+A8D0, U+A9D0, U+A9F0 and U+ABF0.
DigitRows ==
    <<"0123456789",
      "۰۱۲۳۴۵۶۷۸۹",
      "߀߁߂߃߄߅߆߇߈߉",
      "০১২৩৪৫৬৭৮৯",
      "૦૧૨૩૪૫૬૭૮૯",
      "௦௧௨௩௪௫௬௭௮௯",
      "೦೧೨೩೪೫೬೭೮೯",
      "෦෧෨෩෪෫෬෭෮෯",
      "໐໑໒໓໔໕໖໗໘໙",
      "႐႑႒႓႔႕႖႗႘႙",
      "០១២៣៤៥៦៧៨៩",
      "᧐᧑᧒᧓᧔᧕᧖᧗᧘᧙",
      "᪀᪁᪂᪃᪄᪅᪆᪇᪈᪉",
      "᪐᪑᪒᪓᪔᪕᪖᪗᪘᪙",
      "᮰᮱᮲᮳᮴᮵᮶᮷᮸᮹",
      "꣐꣑꣒꣓꣔꣕꣖꣗꣘꣙",
      "꧐꧑꧒꧓꧔꧕꧖꧗꧘꧙",
      "꧰꧱꧲꧳꧴꧵꧶꧷꧸꧹",
      "꯰꯱꯲꯳꯴꯵꯶꯷꯸꯹">>

IsDigit(c) == \E r \in 1..Len(DigitRows), i \in 1..10 : Char(DigitRows[r], i) = c

DigitVal(c) ==
    (CHOOSE i \in 1..10 : \E r \in 1..Len(DigitRows) : Char(DigitRows[r], i) = c) - 1

\* The digits of an int() literal after the sign: decimal digits, single
\* underscores allowed between two digits.
IsDigits(s) ==
    /\ s # ""
    /\ \A i \in 1..Len(s) :
         \/ IsDigit(Char(s, i))
         \/ /\ Char(s, i) = "_"
            /\ i > 1 /\ i < Len(s)
            /\ IsDigit(Char(s, i - 1)) /\ IsDigit(Char(s, i + 1))

RECURSIVE DigitsVal(_, _)
DigitsVal(s, acc) ==
    IF s = "" THEN acc
    ELSE IF Head(s) = "_" THEN DigitsVal(Tail(s), acc)
    ELSE DigitsVal(Tail(s), 10 * acc + DigitVal(Head(s)))

\* The white space characters that have no escape in a string literal.
\* U+000B, line tabulation
VT == ""
\* U+001C, file separator
FS == ""
\* U+001D, group separator
GS == ""
\* U+001E, record separator
RS == ""
\* U+001F, unit separator
US == ""
\* U+0085, next line
NEL == ""
\* U+00A0, no-break space
NBSP == " "
\* U+1680, ogham space mark
OghamSpace == " "

\* The white space of str.isspace, which str.split() splits on, among the
\* characters a string literal of this module can hold.
Whitespace ==
    {" ", "\t", "\n", "\r", "\f", VT, FS, GS, RS, US, NEL, NBSP, OghamSpace}

\* The white space int() skips around its literal: that of str.isspace
\* without the four separators U+001C to U+001F.
IntWhitespace == Whitespace \ {FS, GS, RS, US}

\* The text of s between the white space int() skips at both ends.
RECURSIVE Strip(_)
Strip(s) ==
    IF s # "" /\ Head(s) \in IntWhitespace THEN Strip(Tail(s))
    ELSE IF s # "" /\ Char(s, Len(s)) \in IntWhitespace
    THEN Strip(SubSeq(s, 1, Len(s) - 1))
    ELSE s

\* The literal of int(s): the white space around it is skipped.
IntBody(s) == Strip(s)

IntUnsigned(s) ==
    IF IntBody(s) # "" /\ Head(IntBody(s)) \in {"+", "-"} THEN Tail(IntBody(s))
    ELSE IntBody(s)

\* int(x): the exception it raises, "" when it returns.
IntError(x) ==
    IF x = None THEN "TypeError"
    ELSE IF IsDigits(IntUnsigned(x)) THEN ""
    ELSE "ValueError"

\* int(x) where it returns.
IntValue(x) ==
    IF IntBody(x) # "" /\ Head(IntBody(x)) = "-" THEN 0 - DigitsVal(IntUnsigned(x), 0)
    ELSE DigitsVal(IntUnsigned(x), 0)

\* The empty dictionary {} and the empty list [].
EmptyDict == <<>>

\* d[k] = v
SetItem(d, k, v) == [x \in (DOMAIN d) \cup {k} |-> IF x = k THEN v ELSE d[x]]

\* d.update(e): the entries of e are written over those of d.
Update(d, e) == [x \in (DOMAIN d) \cup (DOMAIN e) |-> IF x \in DOMAIN e THEN e[x] ELSE d[x]]


(***************************************************************************)
(* The parsed template: xml.etree.ElementTree.                             *)
(*                                                                         *)
(* The tree is the list of the root's child elements in document order.    *)
(* An element is [tag, text, attrib]; text is None for an element without  *)
(* text, attrib is the dictionary of the attributes the element carries.   *)
(***************************************************************************)
\* An element without attributes.
Element(tag, text) == [tag |-> tag, text |-> text, attrib |-> EmptyDict]

\* tree.find(tag): the position of the first child with this tag, 0 for
\* Python's None.
Find(tree, tag) ==
    IF \E i \in 1..Len(tree) : tree[i].tag = tag
    THEN CHOOSE i \in 1..Len(tree) :
             tree[i].tag = tag /\ \A j \in 1..(i - 1) : tree[j].tag # tag
    ELSE 0

\* tree.findall(tag): the children with this tag, in document order.
RECURSIVE FindAll(_, _)
FindAll(tree, tag) ==
    IF tree = <<>> THEN <<>>
    ELSE (IF Head(tree).tag = tag THEN <<Head(tree)>> ELSE <<>>) \o FindAll(Tail(tree), tag)

\* config.attrib.get(key): None for an attribute the element does not carry.
Get(config, key) == IF key \in DOMAIN config.attrib THEN config.attrib[key] ELSE None

(***************************************************************************)
(* UnDocker._tag.  A Python call either returns a value or raises: the     *)
(* exception is modelled by <name>Error, "" when the call returns, and the *)
(* value by the operator of the function's name.                           *)
(***************************************************************************)
\* self.tree.find(tag).text where find returned None
TagError(tree, tag) == IF Find(tree, tag) = 0 THEN "AttributeError" ELSE ""

_tag(tree, tag) ==
    IF Truthy(tree[Find(tree, tag)].text) THEN Str(tree[Find(tree, tag)].text) ELSE ""

\* The exception of reading the tags of the sequence tags one after the
\* other: that of the first read that raises.
RECURSIVE TagsError(_, _)
TagsError(tree, tags) ==
    IF tags = <<>> THEN ""
    ELSE IF TagError(tree, Head(tags)) # "" THEN TagError(tree, Head(tags))
    ELSE TagsError(tree, Tail(tags))

(***************************************************************************)
(* UnDocker._unraid_labels and UnDocker._unraid_environment.               *)
(***************************************************************************)
UnraidLabelTags ==
    <<"Registry", "Shell", "Support", "Project", "Overview", "Category", "Icon",
      "WebUI", "TemplateURL", "DateInstalled", "DonateText", "DonateLink",
      "Requires">>

_unraid_labelsError(tree) == TagsError(tree, UnraidLabelTags)

_unraid_labels(tree) ==
    ("net.unraid.docker.registry" :> _tag(tree, "Registry"))
    @@ ("net.unraid.docker.shell" :> _tag(tree, "Shell"))
    @@ ("net.unraid.docker.support" :> _tag(tree, "Support"))
    @@ ("net.unraid.docker.project" :> _tag(tree, "Project"))
    @@ ("net.unraid.docker.overview" :> _tag(tree, "Overview"))
    @@ ("net.unraid.docker.category" :> _tag(tree, "Category"))
    @@ ("net.unraid.docker.icon" :> _tag(tree, "Icon"))
    @@ ("net.unraid.docker.webui" :> _tag(tree, "WebUI"))
    @@ ("net.unraid.docker.managed" :> "compose")
    @@ ("net.unraid.docker.template" :> _tag(tree, "TemplateURL"))
    @@ ("net.unraid.docker.installed" :> _tag(tree, "DateInstalled"))
    @@ ("net.unraid.docker.donate.text" :> _tag(tree, "DonateText"))
    @@ ("net.unraid.docker.donate.link" :> _tag(tree, "DonateLink"))
    @@ ("net.unraid.docker.requires" :> _tag(tree, "Requires"))

_unraid_environmentError(tree) == TagsError(tree, <<"Name", "Name">>)

_unraid_environment(tree) ==
    ("TZ" :> "UTC")
    @@ ("HOST_OS" :> "Unraid")
    @@ ("HOST_HOSTNAME" :> _tag(tree, "Name"))
    @@ ("HOST_CONTAINERNAME" :> _tag(tree, "Name"))

(***************************************************************************)
(* UnDocker._configs: one Config element.                                  *)
(***************************************************************************)
\* get('Name').replace(' ', '_') where get('Name') is None
HeaderError(config) == IF Get(config, "Name") = None THEN "AttributeError" ELSE ""

Header(config) == "net.unraid.docker.config." \o Replace(Get(config, "Name"), " ", "_")

\* get("Default").replace("$", "$$") where the text is empty and
\* get("Default") is None
ValueError(config) ==
    IF ~Truthy(config.text) /\ Get(config, "Default") = None THEN "AttributeError" ELSE ""

\* The value of the entry, '$' escaped.
Value(config) ==
    IF Truthy(config.text) THEN Replace(config.text, "$", "$$")
    ELSE Replace(Get(config, "Default"), "$", "$$")

\* The two int() calls of a Port entry, in the order of the dict display.
PortError(config) ==
    IF Get(config, "Type") # "Port" THEN ""
    ELSE IF IntError(Get(config, "Target")) # "" THEN IntError(Get(config, "Target"))
    ELSE IntError(Value(config))

PortEntry(config) ==
    [target |-> IntValue(Get(config, "Target")),
     published |-> IntValue(Value(config)),
     protocol |-> IF Truthy(Get(config, "Mode")) THEN Get(config, "Mode") ELSE ""]

\* MountSpec with the Mode suffix written whether or not Mode is given.
MountSpecAlwaysMode(config) ==
    Value(config) \o ":" \o Str(Get(config, "Target")) \o ":" \o Str(Get(config, "Mode"))

\* MountSpec with get('Target', ''): a missing Target written as nothing.
MountSpecEmptyTarget(config) ==
    Value(config) \o ":"
    \o (IF Get(config, "Target") = None THEN "" ELSE Get(config, "Target"))
    \o (IF Truthy(Get(config, "Mode")) THEN ":" \o Str(Get(config, "Mode")) ELSE "")

\* f"{value}:{get('Target')}" + (f":{get('Mode')}" if get("Mode") else ""),
\* the volume and the device specification.
MountSpec(config) ==
    Value(config) \o ":" \o Str(Get(config, "Target"))
    \o (IF Truthy(Get(config, "Mode")) THEN ":" \o Str(Get(config, "Mode")) ELSE "")

\* ExtendedLabels with the Default escaped like the value.
ExtendedLabelsEscaped(config) ==
    ((Header(config) \o ".default") :> Replace(Get(config, "Default"), "$", "$$"))
    @@ ((Header(config) \o ".description") :> Get(config, "Description"))
    @@ ((Header(config) \o ".display") :> Get(config, "Display"))
    @@ ((Header(config) \o ".required") :> Get(config, "Required"))
    @@ ((Header(config) \o ".mask") :> Get(config, "Mask"))

\* The dictionary of the labels.update call under config_labels.
ExtendedLabels(config) ==
    ((Header(config) \o ".default") :> Get(config, "Default"))
    @@ ((Header(config) \o ".description") :> Get(config, "Description"))
    @@ ((Header(config) \o ".display") :> Get(config, "Display"))
    @@ ((Header(config) \o ".required") :> Get(config, "Required"))
    @@ ((Header(config) \o ".mask") :> Get(config, "Mask"))

\* The exception of one pass of the loop body: the header, the value, then
\* the Port conversion.
ConfigError(config) ==
    IF HeaderError(config) # "" THEN HeaderError(config)
    ELSE IF ValueError(config) # "" THEN ValueError(config)
    ELSE PortError(config)

PortsAfter(ports, config) ==
    IF Get(config, "Type") = "Port" THEN Append(ports, PortEntry(config)) ELSE ports

VolumesAfter(volumes, config) ==
    IF Get(config, "Type") = "Path" THEN Append(volumes, MountSpec(config)) ELSE volumes

DevicesAfter(devices, config) ==
    IF Get(config, "Type") = "Devices" THEN Append(devices, MountSpec(config)) ELSE devices

EnvironmentAfter(environment, config) ==
    IF Get(config, "Type") = "Variable"
    THEN SetItem(environment, Get(config, "Target"), Str(Value(config)))
    ELSE environment

\* The Label placement, then the extended labels written over it.
LabelsAfter(labels, config, config_labels) ==
    LET typed == IF Get(config, "Type") = "Label"
                 THEN SetItem(labels, Get(config, "Target"), Value(config))
                 ELSE labels
    IN  IF config_labels THEN Update(typed, ExtendedLabels(config)) ELSE typed

(***************************************************************************)
(* UnDocker.networks and UnDocker.services.                                *)
(***************************************************************************)
networksError(tree) == TagsError(tree, <<"Network", "Network">>)

networks(tree) ==
    _tag(tree, "Network") :> [external |-> TRUE, name |-> _tag(tree, "Network")]

\* MergeLabels the other way round: the labels of the Config entries written
\* over the synthesized ones.
MergeLabelsUnder(labels, tree) == Update(_unraid_labels(tree), labels)

\* labels.update(self._unraid_labels())
MergeLabels(labels, tree) == Update(labels, _unraid_labels(tree))

\* environment.update(self._unraid_environment())
MergeEnvironment(environment, tree) == Update(environment, _unraid_environment(tree))

\* not bool(self._tag("Privileged") == "false")
Privileged(tree) == ~(_tag(tree, "Privileged") = "false")

ServiceTags ==
    <<"Name", "Name", "Repository", "Privileged", "Network", "CPUset", "PostArgs">>

servicesError(tree) == TagsError(tree, ServiceTags)

\* The dictionary services() returns, from the collections of _configs after
\* the two update calls.
services(tree, ports, volumes, environment, labels, devices) ==
    _tag(tree, "Name") :>
        [container_name |-> _tag(tree, "Name"),
         image |-> _tag(tree, "Repository"),
         privileged |-> Privileged(tree),
         ports |-> ports,
         volumes |-> volumes,
         environment |-> environment,
         labels |-> labels,
         devices |-> devices,
         networks |-> <<_tag(tree, "Network")>>,
         cpuset |-> _tag(tree, "CPUset"),
         command |-> _tag(tree, "PostArgs")]

(***************************************************************************)
(* UnDocker.__init__: the path of the compose file.                        *)
(***************************************************************************)
\* posixpath.dirname
dirname(p) ==
    LET head == SubSeq(p, 1, LastIndexOf(p, "/"))
    IN  IF head # "" /\ ~AllChar(head, "/") THEN RStrip(head, "/") ELSE head

\* posixpath.join of two components
join(a, b) ==
    IF StartsWith(b, "/") THEN b
    ELSE IF a = "" \/ EndsWith(a, "/") THEN a \o b
    ELSE a \o "/" \o b

\* self.yaml as __init__ sets it
InitYaml(template, compose) ==
    IF Truthy(compose) THEN compose
    ELSE join(dirname(compose), "docker-compose.yaml")

\* UnDocker.compose_version
compose_version == "3.7"

\* OpenW with the file opened without truncation (mode "a" or "r+").
OpenKeep(content) == content

\* open(self.yaml, "w"): the file is created or truncated.
OpenW(content) == [data |-> "empty", document |-> EmptyDict]

(***************************************************************************)
(* UnDocker._extra_params.                                                 *)
(*                                                                         *)
(* The parser is argparse.ArgumentParser(); known_args names the options   *)
(* --restart (dest restart) and --net, --network (dest networks), each     *)
(* taking one argument, beside the -h, --help option every parser has.     *)
(* parse_known_args either returns the namespace or leaves through         *)
(* parser.error or the help action, both SystemExit.                       *)
(***************************************************************************)
\* The length of the longest prefix of s without white space.
RECURSIVE WordLen(_)
WordLen(s) == IF s = "" \/ Head(s) \in Whitespace THEN 0 ELSE 1 + WordLen(Tail(s))

\* params.split(): the maximal runs of characters that are not white space.
RECURSIVE Split(_)
Split(s) ==
    IF s = "" THEN <<>>
    ELSE IF Head(s) \in Whitespace THEN Split(Tail(s))
    ELSE <<SubSeq(s, 1, WordLen(s))>> \o Split(SubSeq(s, WordLen(s) + 1, Len(s)))

OptionStrings == {"-h", "--help", "--restart", "--net", "--network"}

\* The dest of the action of an option string.
Dest(option) ==
    IF option \in {"-h", "--help"} THEN "help"
    ELSE IF option = "--restart" THEN "restart"
    ELSE "networks"

\* The text before and after the first '='.
BeforeEq(arg) == IF Contains(arg, "=") THEN SubSeq(arg, 1, IndexOf(arg, "=") - 1) ELSE arg

AfterEq(arg) ==
    IF Contains(arg, "=") THEN SubSeq(arg, IndexOf(arg, "=") + 1, Len(arg)) ELSE None

\* ArgumentParser._get_option_tuples: the options arg abbreviates, each with
\* the explicit argument it would carry.
OptionTuples(arg) ==
    IF Char(arg, 2) = "-"
    THEN {<<o, AfterEq(arg)>> : o \in {x \in OptionStrings : StartsWith(x, BeforeEq(arg))}}
    ELSE {<<o, SubSeq(arg, 3, Len(arg))>> : o \in {x \in OptionStrings : x = SubSeq(arg, 1, 2)}}
         \cup {<<o, None>> : o \in {x \in OptionStrings :
                                       x # SubSeq(arg, 1, 2) /\ StartsWith(x, arg)}}

\* The negative number matcher '^-\d+$|^-\d*\.\d+$'; \d is a decimal digit of
\* any script, and $ also matches before a line feed that ends the text.
IsNegativeNumber(arg) ==
    LET rest == IF EndsWith(arg, "\n") THEN SubSeq(arg, 2, Len(arg) - 1) ELSE Tail(arg)
        dot == IndexOf(rest, ".")
    IN  /\ rest # ""
        /\ \/ \A i \in 1..Len(rest) : IsDigit(Char(rest, i))
           \/ /\ dot > 0 /\ dot < Len(rest)
              /\ \A i \in 1..Len(rest) : i # dot => IsDigit(Char(rest, i))

\* ArgumentParser._parse_optional: how one token is read.  kind is
\* "positional" (the function returns None), "option" (a known option
\* string, with the explicit argument of the --flag=value form), "unknown"
\* (it looks like a flag and names no option) or "ambiguous" (parser.error).
\* A text with a blank in it that names no option is a positional.
ParseOptional(arg) ==
    IF arg = "" \/ Head(arg) # "-"
    THEN [kind |-> "positional", option |-> "", explicit |-> None]
    ELSE IF arg \in OptionStrings
    THEN [kind |-> "option", option |-> arg, explicit |-> None]
    ELSE IF Len(arg) = 1
    THEN [kind |-> "positional", option |-> "", explicit |-> None]
    ELSE IF Contains(arg, "=") /\ BeforeEq(arg) \in OptionStrings
    THEN [kind |-> "option", option |-> BeforeEq(arg), explicit |-> AfterEq(arg)]
    ELSE IF Cardinality(OptionTuples(arg)) > 1
    THEN [kind |-> "ambiguous", option |-> "", explicit |-> None]
    ELSE IF Cardinality(OptionTuples(arg)) = 1
    THEN LET t == CHOOSE x \in OptionTuples(arg) : TRUE
         IN  [kind |-> "option", option |-> t[1], explicit |-> t[2]]
    ELSE IF IsNegativeNumber(arg) \/ Contains(arg, " ")
    THEN [kind |-> "positional", option |-> "", explicit |-> None]
    ELSE [kind |-> "unknown", option |-> "", explicit |-> None]

\* The namespace before parsing: every dest at its default, None.
EmptyNamespace == [restart |-> None, networks |-> None]

\* The position of the first '--' among the tokens, one past the last
\* token when there is none.
FirstDashes(tokens) ==
    IF \E i \in 1..Len(tokens) : tokens[i] = "--"
    THEN CHOOSE i \in 1..Len(tokens) :
             tokens[i] = "--" /\ \A j \in 1..(i - 1) : tokens[j] # "--"
    ELSE Len(tokens) + 1

\* The letter of token i in arg_strings_pattern: '-' for the first '--', 'A'
\* for every token after it and for every token _parse_optional reads as a
\* positional, 'O' for the others; "" past the last token.
Pattern(tokens, i) ==
    IF i > Len(tokens) THEN ""
    ELSE IF i = FirstDashes(tokens) THEN "-"
    ELSE IF i > FirstDashes(tokens) THEN "A"
    ELSE IF ParseOptional(tokens[i]).kind = "positional" THEN "A"
    ELSE "O"

\* ArgumentParser._get_values for an action of one argument: the first '--'
\* is removed from the argument strings, so an explicit argument '--'
\* leaves none and the value is the empty list.
GetValues(arg) == IF arg = "--" THEN NoValues ELSE arg

\* The consuming loop of parse_known_args from token i on.  Tokens of
\* letter 'A' or '-' and unknown flags go to the extras; --restart, --net
\* and --network store their one argument, which is the explicit one or the
\* next token when its letter is 'A' (the pattern of an option's argument
\* admits no '--'), and an error otherwise; the help action prints and exits.
RECURSIVE Consume(_, _, _)
Consume(tokens, i, ns) ==
    IF i > Len(tokens) THEN [error |-> "", namespace |-> ns]
    ELSE IF Pattern(tokens, i) # "O" THEN Consume(tokens, i + 1, ns)
    ELSE LET p == ParseOptional(tokens[i])
         IN  IF p.kind = "unknown" THEN Consume(tokens, i + 1, ns)
             ELSE IF Dest(p.option) = "help" THEN [error |-> "SystemExit", namespace |-> ns]
             ELSE IF p.explicit # None
             THEN Consume(tokens, i + 1,
                          [ns EXCEPT ![Dest(p.option)] = GetValues(p.explicit)])
             ELSE IF Pattern(tokens, i + 1) = "A"
             THEN Consume(tokens, i + 2,
                          [ns EXCEPT ![Dest(p.option)] = GetValues(tokens[i + 1])])
             ELSE [error |-> "SystemExit", namespace |-> ns]

\* docker_parser.parse_known_args(tokens)[0]: every token before the first
\* '--' is classified first, an ambiguous abbreviation among them is an
\* error wherever it stands.
ParseKnownArgs(tokens) ==
    IF \E i \in 1..Len(tokens) :
           i < FirstDashes(tokens) /\ ParseOptional(tokens[i]).kind = "ambiguous"
    THEN [error |-> "SystemExit", namespace |-> EmptyNamespace]
    ELSE Consume(tokens, 1, EmptyNamespace)

\* known_args: the option strings of each action (a list) and its dest.
known_args ==
    <<[flags |-> <<"--restart">>, dest |-> "restart"],
      [flags |-> <<"--net", "--network">>, dest |-> "networks"]>>

\* docker_parser.add_argument(flags, dest=dest), the list flags passed as
\* the only positional argument: add_argument reads a single argument whose
\* first item is not a prefix character (item in '-') as the name of a
\* positional, and a positional that is given a dest is rejected.
add_argumentError(flags, dest) ==
    IF Head(flags) \notin {"", "-"} THEN "ValueError" ELSE ""

\* The list comprehension over known_args: the first call that raises.
RECURSIVE AddArgumentsError(_)
AddArgumentsError(known) ==
    IF known = <<>> THEN ""
    ELSE IF add_argumentError(Head(known).flags, Head(known).dest) # ""
    THEN add_argumentError(Head(known).flags, Head(known).dest)
    ELSE AddArgumentsError(Tail(known))

\* The exception of _extra_params: that of the add_argument calls, then that
\* of parse_known_args, then that of the loop over
\* docker_args._get_kwargs(), where for the first dest with a non-empty value
\* the key is looked up as args.__getattribute__(dest) and no name args
\* exists in the function or the module.
_extra_paramsError(params) ==
    LET parsed == ParseKnownArgs(Split(params))
    IN  IF AddArgumentsError(known_args) # "" THEN AddArgumentsError(known_args)
        ELSE IF parsed.error # "" THEN parsed.error
        ELSE IF Truthy(parsed.namespace.restart) \/ Truthy(parsed.namespace.networks)
        THEN "NameError"
        ELSE ""

\* The dictionary _extra_params returns: nothing was ever stored in it.
_extra_params(params) == EmptyDict

(***************************************************************************)
(* The templates, paths and parameter strings the model runs on.           *)
(***************************************************************************)
\* The singular tags the code reads.
ReadTags ==
    <<"Name", "Repository", "Network", "Privileged", "CPUset", "PostArgs",
      "Registry", "Shell", "Support", "Project", "Overview", "Category", "Icon",
      "WebUI", "TemplateURL", "DateInstalled", "DonateText", "DonateLink",
      "Requires">>

BaseText(tag) ==
    CASE tag = "Name" -> "plex"
      [] tag = "Repository" -> "linuxserver/plex"
      [] tag = "Network" -> "bridge"
      [] tag = "Privileged" -> "false"
      [] tag = "CPUset" -> "0,1"
      [] tag = "Shell" -> "bash"
      [] tag = "WebUI" -> "http://[IP]:[PORT:32400]/web"
      [] OTHER -> None

\* A template that carries every singular tag, some of them without text.
BaseTree == [i \in 1..Len(ReadTags) |-> Element(ReadTags[i], BaseText(ReadTags[i]))]

\* The tree without its elements of one tag.
RECURSIVE Without(_, _)
Without(tree, tag) ==
    IF tree = <<>> THEN <<>>
    ELSE (IF Head(tree).tag = tag THEN <<>> ELSE <<Head(tree)>>) \o Without(Tail(tree), tag)

\* The tree with the text of every element of one tag replaced.
WithText(tree, tag, text) ==
    [i \in 1..Len(tree) |-> IF tree[i].tag = tag THEN Element(tag, text) ELSE tree[i]]

TagSet == {ReadTags[i] : i \in 1..Len(ReadTags)}

\* The singular parts of the templates: the base, the base with one tag
\* missing, with one tag emptied or given a text, with other Privileged
\* texts, and with a tag that occurs twice.
SingularTrees ==
    {BaseTree}
    \cup {Without(BaseTree, t) : t \in TagSet}
    \cup {WithText(BaseTree, t, None) : t \in TagSet}
    \cup {WithText(BaseTree, t, "x") : t \in TagSet}
    \cup {WithText(BaseTree, "Privileged", v) : v \in {"no", "true", "False"}}
    \cup {<<Element("Name", "first")>> \o BaseTree,
          <<Element("Privileged", None)>> \o BaseTree}

\* The attributes of a Config element.
AttrNames ==
    {"Name", "Type", "Target", "Default", "Mode", "Description", "Display",
     "Required", "Mask"}

\* A Config element; an attribute given as None is one the element does not
\* carry.  documented says whether it carries the Description, Display,
\* Required and Mask attributes.
Cfg(name, type, target, text, default, mode, documented) ==
    LET given == [a \in AttrNames |->
                     CASE a = "Name" -> name
                       [] a = "Type" -> type
                       [] a = "Target" -> target
                       [] a = "Default" -> default
                       [] a = "Mode" -> mode
                       [] a = "Description" -> IF documented THEN "Container $ setting" ELSE None
                       [] a = "Display" -> IF documented THEN "always" ELSE None
                       [] a = "Required" -> IF documented THEN "true" ELSE None
                       [] a = "Mask" -> IF documented THEN "false" ELSE None]
    IN  [tag |-> "Config",
         text |-> text,
         attrib |-> [a \in {x \in AttrNames : given[x] # None} |-> given[a]]]

ConfigEntries ==
    {Cfg("Web UI", "Port", "8080", "8081", "8082", "tcp", TRUE),
     Cfg("Web_UI", "Port", "\t80\r\n", None, "1_000", None, FALSE),
     Cfg("p", "Port", None, "81", "82", "udp", TRUE),
     Cfg("p", "Port", "80", "$81", "82", None, FALSE),
     Cfg("p", "Port", "http", "81", None, "", FALSE),
     Cfg("data", "Path", "/data", None, "/data", None, TRUE),
     Cfg("data", "Path", "/d", "/mnt/$user", "/data", "rw", FALSE),
     Cfg("d", "Path", None, "/mnt", None, "ro", FALSE),
     Cfg("gpu", "Devices", "/dev/dri", "/dev/dri", "", None, TRUE),
     Cfg("gpu", "Devices", None, "", "/dev/$d", "rwm", FALSE),
     Cfg("tz", "Variable", "TZ", "$HOME", "UTC", None, TRUE),
     Cfg("k", "Variable", "K", None, "$$", "", FALSE),
     Cfg("k", "Variable", None, "v", None, None, FALSE),
     Cfg("k", "Variable", "K", None, None, None, TRUE),
     Cfg("k", "Variable", "K", "", None, None, FALSE),
     Cfg(None, "Variable", "K", "v", "w", None, FALSE),
     Cfg("l", "Label", "net.unraid.docker.managed", "dockerman", "", None, FALSE),
     Cfg("l", "Label", "L", None, "$l", None, TRUE),
     Cfg("l", "Label", None, "v", "w", None, FALSE),
     Cfg("l", "Label", "net.unraid.docker.config.l.default", "over", "w", None, FALSE),
     Cfg("s", "Slider", "K", "5", "$1", "rw", TRUE),
     Cfg("s", None, "/data", None, "7", None, FALSE),
     Cfg("p", "Port", NEL \o "80" \o NBSP, "\n 8081" \o NBSP \o "\n ", None, None, FALSE)}

\* The lists of at most n elements of S.
RECURSIVE ListsUpTo(_, _)
ListsUpTo(S, n) ==
    IF n = 0 THEN {<<>>}
    ELSE ListsUpTo(S, n - 1)
         \cup {Append(l, e) : l \in {x \in ListsUpTo(S, n - 1) : Len(x) = n - 1}, e \in S}

ConfigLists == ListsUpTo(ConfigEntries, MaxConfigs)

\* The Config lists that go with the varied singular parts.
FewConfigLists ==
    {<<>>,
     <<Cfg("tz", "Variable", "TZ", "$HOME", "UTC", None, TRUE)>>,
     <<Cfg("p", "Port", "80", "$81", "82", None, FALSE)>>}

TemplatePaths == {"plex.xml", "/boot/templates/plex.xml", "templates/plex.xml", "/plex.xml"}

OutputPaths == {"", "compose.yaml", "/srv/plex/docker-compose.yaml"}

\* The tokens of the ExtraParams strings.
ParamTokens ==
    {"--restart", "--net", "--network", "--netw", "--n", "--restart=always", "--res=",
     "--cpus", "-h", "-d", "always", "host", "--"}

RECURSIVE JoinTokens(_)
JoinTokens(tokens) ==
    IF tokens = <<>> THEN ""
    ELSE IF Len(tokens) = 1 THEN Head(tokens)
    ELSE Head(tokens) \o " " \o JoinTokens(Tail(tokens))

ParamStrings ==
    {JoinTokens(l) : l \in ListsUpTo(ParamTokens, MaxTokens)}
    \cup {" --net  host ", "--cpus 2 --restart unless-stopped",
          "--net\thost", "\t--restart\r\nalways\f", "--net=--\n",
          "--net" \o VT \o "host", "--restart" \o FS \o "always" \o NBSP}

(***************************************************************************)
(* The state of a run.                                                     *)
(***************************************************************************)
VARIABLES
    template,       \* the path of the template given to __init__
    output,         \* the compose argument of __init__
    tree,           \* self.tree
    yaml,           \* self.yaml
    config_labels,  \* self.config_labels
    file,           \* what the file at self.yaml holds
    pc,             \* where the run stands
    error,          \* the exception that ended the run, "" when none
    idx,            \* _configs: the Config elements done
    ports,          \* _configs: its five collections
    volumes,
    devices,
    environment,
    labels,
    service,        \* the value of self.services()
    network,        \* the value of self.networks()
    params,         \* the argument of a call of _extra_params
    extra           \* the value of that call

vars ==
    <<template, output, tree, yaml, config_labels, file, pc, error, idx, ports,
      volumes, devices, environment, labels, service, network, params, extra>>

\* The content of the compose file before the run.
PriorFile == [data |-> "prior", document |-> EmptyDict]

\* UnDocker(template, output, flag) on a template that parses to t.
Construct(tpl, out, t, flag) ==
    /\ template = tpl
    /\ output = out
    /\ tree = t
    /\ yaml = InitYaml(tpl, out)
    /\ config_labels = flag
    /\ file = PriorFile
    /\ error = ""
    /\ idx = 0
    /\ ports = <<>>
    /\ volumes = <<>>
    /\ devices = <<>>
    /\ environment = EmptyDict
    /\ labels = EmptyDict
    /\ service = EmptyDict
    /\ network = EmptyDict
    /\ extra = EmptyDict

\* A constructed UnDocker whose compose() is about to run, or a call of the
\* static method _extra_params.  The inputs are the varied singular parts
\* with a few Config lists, every Config list on the base template, and the
\* paths on the base template.
Init ==
    \/ /\ \E t \in SingularTrees, cs \in FewConfigLists, flag \in BOOLEAN :
            Construct("plex.xml", "", t \o cs, flag)
       /\ pc = "ready"
       /\ params = ""
    \/ /\ \E cs \in ConfigLists, flag \in BOOLEAN :
            Construct("plex.xml", "", BaseTree \o cs, flag)
       /\ pc = "ready"
       /\ params = ""
    \/ /\ \E tpl \in TemplatePaths, out \in OutputPaths :
            Construct(tpl, out, BaseTree, FALSE)
       /\ pc = "ready"
       /\ params = ""
    \/ /\ Construct("plex.xml", "", BaseTree, FALSE)
       /\ pc = "static"
       /\ params \in ParamStrings

\* self.tree.findall("Config")
configs == FindAll(tree, "Config")

\* An exception leaves compose(): the with block closes the file.
Raise(e) ==
    /\ pc' = "raised"
    /\ error' = e

\* An exception leaves the call of _extra_params.
RaiseStatic(e) ==
    /\ pc' = "static_raised"
    /\ error' = e

\* compose: open(self.yaml, "w"); then services() starts with _configs.
Open ==
    /\ pc = "ready"
    /\ file' = OpenW(file)
    /\ pc' = "configs"
    /\ idx' = 0
    /\ ports' = <<>>
    /\ volumes' = <<>>
    /\ devices' = <<>>
    /\ environment' = EmptyDict
    /\ labels' = EmptyDict
    /\ UNCHANGED <<template, output, tree, yaml, config_labels, error, service,
                   network, params, extra>>

\* _configs: one pass of the loop over the Config elements.
ConfigStep ==
    /\ pc = "configs"
    /\ idx < Len(configs)
    /\ LET config == configs[idx + 1]
       IN  IF ConfigError(config) # ""
           THEN /\ Raise(ConfigError(config))
                /\ UNCHANGED <<idx, ports, volumes, devices, environment, labels>>
           ELSE /\ ports' = PortsAfter(ports, config)
                /\ volumes' = VolumesAfter(volumes, config)
                /\ devices' = DevicesAfter(devices, config)
                /\ environment' = EnvironmentAfter(environment, config)
                /\ labels' = LabelsAfter(labels, config, config_labels)
                /\ idx' = idx + 1
                /\ UNCHANGED <<pc, error>>
    /\ UNCHANGED <<template, output, tree, yaml, config_labels, file, service,
                   network, params, extra>>

\* _configs returns its collections.
ConfigsReturn ==
    /\ pc = "configs"
    /\ idx = Len(configs)
    /\ pc' = "unraid_labels"
    /\ UNCHANGED <<template, output, tree, yaml, config_labels, file, error, idx,
                   ports, volumes, devices, environment, labels, service, network,
                   params, extra>>

\* services: labels.update(self._unraid_labels())
UnraidLabels ==
    /\ pc = "unraid_labels"
    /\ IF _unraid_labelsError(tree) # ""
       THEN /\ Raise(_unraid_labelsError(tree))
            /\ UNCHANGED labels
       ELSE /\ labels' = MergeLabels(labels, tree)
            /\ pc' = "unraid_environment"
            /\ UNCHANGED error
    /\ UNCHANGED <<template, output, tree, yaml, config_labels, file, idx, ports,
                   volumes, devices, environment, service, network, params, extra>>

\* services: environment.update(self._unraid_environment())
UnraidEnvironment ==
    /\ pc = "unraid_environment"
    /\ IF _unraid_environmentError(tree) # ""
       THEN /\ Raise(_unraid_environmentError(tree))
            /\ UNCHANGED environment
       ELSE /\ environment' = MergeEnvironment(environment, tree)
            /\ pc' = "service"
            /\ UNCHANGED error
    /\ UNCHANGED <<template, output, tree, yaml, config_labels, file, idx, ports,
                   volumes, devices, labels, service, network, params, extra>>

\* services: the dictionary it returns.
Services ==
    /\ pc = "service"
    /\ IF servicesError(tree) # ""
       THEN /\ Raise(servicesError(tree))
            /\ UNCHANGED service
       ELSE /\ service' = services(tree, ports, volumes, environment, labels, devices)
            /\ pc' = "networks"
            /\ UNCHANGED error
    /\ UNCHANGED <<template, output, tree, yaml, config_labels, file, idx, ports,
                   volumes, devices, environment, labels, network, params, extra>>

\* compose: self.networks()
Networks ==
    /\ pc = "networks"
    /\ IF networksError(tree) # ""
       THEN /\ Raise(networksError(tree))
            /\ UNCHANGED network
       ELSE /\ network' = networks(tree)
            /\ pc' = "dump"
            /\ UNCHANGED error
    /\ UNCHANGED <<template, output, tree, yaml, config_labels, file, idx, ports,
                   volumes, devices, environment, labels, service, params, extra>>

\* compose: yaml.safe_dump of the assembled document into the open file.
Dump ==
    /\ pc = "dump"
    /\ file' = [data |-> "document",
                document |-> [version |-> compose_version,
                              services |-> service,
                              networks |-> network]]
    /\ pc' = "done"
    /\ UNCHANGED <<template, output, tree, yaml, config_labels, error, idx, ports,
                   volumes, devices, environment, labels, service, network, params,
                   extra>>

\* UnDocker._extra_params(params)
ExtraParams ==
    /\ pc = "static"
    /\ IF _extra_paramsError(params) # ""
       THEN /\ RaiseStatic(_extra_paramsError(params))
            /\ UNCHANGED extra
       ELSE /\ extra' = _extra_params(params)
            /\ pc' = "returned"
            /\ UNCHANGED error
    /\ UNCHANGED <<template, output, tree, yaml, config_labels, file, idx, ports,
                   volumes, devices, environment, labels, service, network, params>>

Next ==
    \/ Open
    \/ ConfigStep
    \/ ConfigsReturn
    \/ UnraidLabels
    \/ UnraidEnvironment
    \/ Services
    \/ Networks
    \/ Dump
    \/ ExtraParams

Spec == Init /\ [][Next]_vars

(***************************************************************************)
(* Properties.                                                             *)
(***************************************************************************)
\* The run is inside compose(), between the open and the end of the dump.
Assembling ==
    pc \in {"configs", "unraid_labels", "unraid_environment", "service", "networks", "dump"}

\* services() has returned.
ServiceBuilt == pc \in {"networks", "dump", "done"}

\* The service definition of the one service.
TheService == service[_tag(tree, "Name")]

\* The Config elements _configs has dealt with.
Processed == SubSeq(configs, 1, idx)

\* The entry's text when present and non-empty, otherwise its Default, every
\* '$' doubled.
EffectiveValue(e) == Replace(IF e.text \notin {None, ""} THEN e.text ELSE Get(e, "Default"), "$", "$$")

\* "net.unraid.docker.config." + Name, spaces replaced by underscores.
ExtendedHeader(e) == "net.unraid.docker.config." \o Replace(Get(e, "Name"), " ", "_")

ExtendedSuffixes ==
    {<<".default", "Default">>, <<".description", "Description">>,
     <<".display", "Display">>, <<".required", "Required">>, <<".mask", "Mask">>}

\* The five extended label keys of an entry.
ExtendedKeys(e) == {ExtendedHeader(e) \o x[1] : x \in ExtendedSuffixes}

\* The outcome of reading a tag: the exception, and the value returned.
TagOutcome(tag) ==
    IF TagError(tree, tag) # "" THEN [error |-> TagError(tree, tag), value |-> None]
    ELSE [error |-> "", value |-> _tag(tree, tag)]

\* compose() has gone through _configs and read the singular tags up to the
\* end or up to a read that raised.
TagsRead == pc = "done" \/ (pc = "raised" /\ idx = Len(configs))

\* C1: reading a tag that is absent from the document returns the empty
\* string and never raises; reading a tag that is present returns its text,
\* or the empty string when it has none.
C1_TagReader ==
    TagsRead =>
    \A tag \in TagSet :
        TagOutcome(tag) =
            [error |-> "",
             value |-> IF Find(tree, tag) = 0 \/ tree[Find(tree, tag)].text \in {None, ""}
                       THEN ""
                       ELSE tree[Find(tree, tag)].text]

\* C1, the part that holds: a tag that is present reads as its text, as the
\* empty string when it has none.
C1_PresentTag ==
    \A tag \in TagSet :
        Find(tree, tag) # 0 =>
            TagOutcome(tag) =
                [error |-> "",
                 value |-> IF tree[Find(tree, tag)].text \in {None, ""}
                           THEN ""
                           ELSE tree[Find(tree, tag)].text]

\* The ":Mode" suffix of a volume or device specification.
ModeSuffix(e) == IF Get(e, "Mode") \in {None, ""} THEN "" ELSE ":" \o Get(e, "Mode")

\* The labels after the extended-label augmentation of entry e.
Augmented(l, e) ==
    IF config_labels
    THEN [k \in (DOMAIN l) \cup ExtendedKeys(e) |->
             IF k \in ExtendedKeys(e)
             THEN Get(e, (CHOOSE x \in ExtendedSuffixes : k = ExtendedHeader(e) \o x[1])[2])
             ELSE l[k]]
    ELSE l

\* C2: every entry the classifier gets through changes at most the one
\* collection its Type names: a Port appends {target: int(Target),
\* published: int(value), protocol: Mode or ""} to ports, a Path appends
\* "value:Target" to volumes, with ":Mode" when Mode is present and not
\* empty, Devices appends the same to devices, a Variable sets
\* environment[Target], a Label sets labels[Target]; any other Type changes
\* none of ports, volumes, devices and environment, and labels change
\* through the extended-label augmentation only.  An entry the classifier
\* raises on changes nothing.
C2_Routing ==
    [][/\ (pc = "configs" /\ idx' = idx + 1) =>
            LET e == configs[idx + 1]
                v == EffectiveValue(e)
                type == Get(e, "Type")
                spec == v \o ":" \o Str(Get(e, "Target")) \o ModeSuffix(e)
            IN  /\ ports' = IF type = "Port"
                            THEN Append(ports,
                                        [target |-> IntValue(Get(e, "Target")),
                                         published |-> IntValue(v),
                                         protocol |-> IF Get(e, "Mode") = None
                                                      THEN "" ELSE Get(e, "Mode")])
                            ELSE ports
                /\ volumes' = IF type = "Path" THEN Append(volumes, spec) ELSE volumes
                /\ devices' = IF type = "Devices" THEN Append(devices, spec) ELSE devices
                /\ environment' = IF type = "Variable"
                                  THEN [k \in (DOMAIN environment) \cup {Get(e, "Target")} |->
                                           IF k = Get(e, "Target") THEN v ELSE environment[k]]
                                  ELSE environment
                /\ labels' = Augmented(IF type = "Label"
                                       THEN [k \in (DOMAIN labels) \cup {Get(e, "Target")} |->
                                                IF k = Get(e, "Target") THEN v ELSE labels[k]]
                                       ELSE labels, e)
                /\ type \notin {"Port", "Path", "Devices", "Variable", "Label"} =>
                       /\ UNCHANGED <<ports, volumes, devices, environment>>
                       /\ ~config_labels => UNCHANGED labels
       /\ (pc = "configs" /\ pc' = "raised") =>
            UNCHANGED <<ports, volumes, devices, environment, labels, idx>>]_vars

\* C2 witness: a Port and a Path with a Mode have been placed.
C2_Witness ==
    /\ pc = "configs" /\ idx = 2
    /\ ports = <<[target |-> 8080, published |-> 8081, protocol |-> "tcp"]>>
    /\ volumes = <<"/mnt/$$user:/d:rw">>
    /\ devices = <<>> /\ environment = EmptyDict

\* The last Config element _configs has dealt with.
LastProcessed == configs[idx]

\* C3, first part: the value placed for the entry just dealt with is its
\* text when present and non-empty, otherwise its Default, every '$' doubled
\* once: the published number of a Port, the source of a volume or a
\* device, the value of a Variable or of a Label.
C3_EscapedOnce ==
    (pc = "configs" /\ idx >= 1) =>
        LET e == LastProcessed
            v == EffectiveValue(e)
            type == Get(e, "Type")
        IN  /\ type = "Port" => ports[Len(ports)].published = IntValue(v)
            /\ type = "Path" => StartsWith(volumes[Len(volumes)], v \o ":")
            /\ type = "Devices" => StartsWith(devices[Len(devices)], v \o ":")
            /\ type = "Variable" => environment[Get(e, "Target")] = v
            /\ (type = "Label" /\ ~(config_labels /\ Get(e, "Target") \in ExtendedKeys(e))) =>
                   labels[Get(e, "Target")] = v

\* C3, second part: an entry with no text falls back to Default without
\* error: the classifier never raises on computing the value of an entry
\* without text.
C3_FallsBackWithoutError ==
    (pc = "raised" /\ idx < Len(configs)) =>
        ~(/\ configs[idx + 1].text \in {None, ""}
          /\ HeaderError(configs[idx + 1]) = ""
          /\ ValueError(configs[idx + 1]) # "")

\* C3: the effective value is the text, else Default, '$' doubled exactly
\* once, and an entry with no text always falls back to Default without
\* error.
C3_EffectiveValue == C3_EscapedOnce /\ C3_FallsBackWithoutError

\* The extended label keys of the entries dealt with.
ProcessedExtendedKeys == UNION {ExtendedKeys(Processed[i]) : i \in 1..idx}

\* The headers of the entries dealt with.
ProcessedHeaders == {ExtendedHeader(Processed[i]) : i \in 1..idx}

\* The Label targets of the entries dealt with.
ProcessedLabelTargets ==
    {Get(Processed[i], "Target") : i \in {j \in 1..idx : Get(Processed[j], "Type") = "Label"}}

\* C4 as amended: with the flag enabled every entry dealt with, of any Type,
\* contributes the five keys header.default, .description, .display,
\* .required, .mask, which hold its attributes verbatim once it has been
\* dealt with; entries with the same header share their five keys, so the
\* labels gain five keys for every distinct header (5n for n entries with
\* pairwise distinct headers).  With the flag disabled the labels have the
\* Label targets as keys and no other.
C4_ExtendedLabels ==
    (pc \in {"configs", "unraid_labels"}) =>
        /\ (config_labels /\ pc = "configs" /\ idx >= 1) =>
               \A x \in ExtendedSuffixes :
                   labels[ExtendedHeader(LastProcessed) \o x[1]] = Get(LastProcessed, x[2])
        /\ config_labels =>
               /\ DOMAIN labels = ProcessedLabelTargets \cup ProcessedExtendedKeys
               /\ Cardinality(ProcessedExtendedKeys) = 5 * Cardinality(ProcessedHeaders)
               /\ Cardinality(ProcessedHeaders) = idx =>
                      Cardinality(ProcessedExtendedKeys) = 5 * idx
        /\ ~config_labels => DOMAIN labels = ProcessedLabelTargets

\* C4 as claimed: with the flag enabled a template with n Config entries
\* gains 5n extended label keys.
C4_FivePerEntry ==
    (pc = "unraid_labels" /\ config_labels) =>
        Cardinality(DOMAIN labels \cap ProcessedExtendedKeys) = 5 * Len(configs)

\* C4 witness: two entries with distinct headers, one of an unrecognized
\* Type and one without the documentation attributes, have left ten keys,
\* the Default unescaped.
C4_Witness ==
    /\ pc = "unraid_labels" /\ config_labels /\ idx = 2
    /\ Get(configs[1], "Type") = "Slider"
    /\ Cardinality(DOMAIN labels) = 10
    /\ labels["net.unraid.docker.config.s.default"] = "$1"
    /\ labels["net.unraid.docker.config.k.default"] = "$$"
    /\ labels["net.unraid.docker.config.k.mask"] = None

\* C5: in the service services() builds, every key the synthesizer produces
\* holds the synthesized value, whatever the Config entries wrote under it:
\* labels net.unraid.docker.managed is "compose", environment TZ is "UTC"
\* and HOST_OS is "Unraid".
C5_SynthesizedWins ==
    ServiceBuilt =>
        /\ TheService.labels["net.unraid.docker.managed"] = "compose"
        /\ TheService.environment["TZ"] = "UTC"
        /\ TheService.environment["HOST_OS"] = "Unraid"
        /\ \A k \in DOMAIN _unraid_labels(tree) :
               TheService.labels[k] = _unraid_labels(tree)[k]
        /\ \A k \in DOMAIN _unraid_environment(tree) :
               TheService.environment[k] = _unraid_environment(tree)[k]
        /\ pc = "done" => file.document.services = service

\* C5 witness: the compose file is written for a template whose Config
\* entries set the environment variable TZ and the label
\* net.unraid.docker.managed to other values.
C5_Witness ==
    /\ pc = "done"
    /\ \E i \in 1..Len(configs) :
           /\ Get(configs[i], "Type") = "Variable" /\ Get(configs[i], "Target") = "TZ"
           /\ EffectiveValue(configs[i]) = "$$HOME"
    /\ \E i \in 1..Len(configs) :
           /\ Get(configs[i], "Type") = "Label"
           /\ Get(configs[i], "Target") = "net.unraid.docker.managed"
           /\ EffectiveValue(configs[i]) = "dockerman"

\* Nothing but the Privileged tag can make the run raise: every other tag
\* the code reads is in the template and no Config entry raises.
OnlyPrivilegedInDoubt ==
    /\ \A tag \in TagSet \ {"Privileged"} : Find(tree, tag) # 0
    /\ \A i \in 1..Len(configs) : ConfigError(configs[i]) = ""

\* C6: privileged is false exactly when the text of the Privileged tag is
\* "false" and true in every other case, the absent tag and the empty text
\* included: the run of such a template ends with a service whose
\* privileged flag is that value.
C6_Privileged ==
    (OnlyPrivilegedInDoubt /\ pc \in {"done", "raised"}) =>
        /\ pc = "done"
        /\ TheService.privileged =
               ~(/\ Find(tree, "Privileged") # 0
                 /\ tree[Find(tree, "Privileged")].text = "false")

\* C6, the part that holds: where the Privileged tag is present and the
\* service is built, privileged is false exactly for the text "false".
C6_PresentTag ==
    (ServiceBuilt /\ Find(tree, "Privileged") # 0) =>
        TheService.privileged = ~(tree[Find(tree, "Privileged")].text = "false")

\* The mapping the claim describes for a namespace: restart and networks,
\* each with the last value given for it.
ExpectedExtra(ns) ==
    [k \in {x \in {"restart", "networks"} : ns[x] \notin {None, "", NoValues}} |-> ns[k]]

\* C7: for every token string the parser accepts, _extra_params completes
\* without error and returns the mapping of restart to the last --restart
\* value and of networks to the last --net or --network value, and nothing
\* else.
C7_ExtraParams ==
    (pc \in {"returned", "static_raised"} /\ ParseKnownArgs(Split(params)).error = "") =>
        /\ pc = "returned"
        /\ extra = ExpectedExtra(ParseKnownArgs(Split(params)).namespace)

\* C8: constructed with no output path, the compose file is
\* docker-compose.yaml in the directory of the input template; a given
\* output path is used unchanged.
C8_DefaultOutputPath ==
    yaml = IF output = "" THEN join(dirname(template), "docker-compose.yaml") ELSE output

\* The classifier is about to deal with a typed entry that has no Target.
AtMissingTarget ==
    /\ pc = "configs" /\ idx < Len(configs)
    /\ Get(configs[idx + 1], "Type") \in {"Port", "Path", "Devices", "Variable", "Label"}
    /\ "Target" \notin DOMAIN configs[idx + 1].attrib

\* The entry lacks what the loop body reads before the placement: the Name,
\* or both the text and the Default.
LacksNameOrValue(e) ==
    \/ "Name" \notin DOMAIN e.attrib
    \/ e.text \in {None, ""} /\ "Default" \notin DOMAIN e.attrib

\* C9 as amended: the missing Target makes the classifier fail on a Port
\* entry only, where it raises TypeError and places nothing.  On a Path,
\* Devices, Variable or Label entry without Target the classifier does not
\* fail: a Path or Devices entry appends the specification "value:None",
\* with the ":Mode" suffix if any, a Variable or Label entry sets the key
\* None, and the loop goes on to the remaining entries.  (Whatever its
\* Target, an entry without Name, or without text and Default, raises
\* AttributeError before the placement.)
C9_MissingTarget ==
    [][AtMissingTarget =>
          LET e == configs[idx + 1]
              type == Get(e, "Type")
          IN  IF LacksNameOrValue(e)
              THEN /\ pc' = "raised" /\ error' = "AttributeError"
                   /\ UNCHANGED <<ports, volumes, devices, environment, labels, idx>>
              ELSE IF type = "Port"
              THEN /\ pc' = "raised" /\ error' = "TypeError"
                   /\ UNCHANGED <<ports, volumes, devices, environment, labels, idx>>
              ELSE /\ pc' = "configs" /\ idx' = idx + 1 /\ error' = ""
                   /\ type = "Path" =>
                          volumes' = Append(volumes, EffectiveValue(e) \o ":None" \o ModeSuffix(e))
                   /\ type = "Devices" =>
                          devices' = Append(devices, EffectiveValue(e) \o ":None" \o ModeSuffix(e))
                   /\ type = "Variable" =>
                          /\ DOMAIN environment' = (DOMAIN environment) \cup {None}
                          /\ environment'[None] = EffectiveValue(e)
                   /\ type = "Label" =>
                          /\ None \in DOMAIN labels'
                          /\ labels'[None] = EffectiveValue(e)]_vars

\* C9 as claimed: the classifier does not fail on any typed entry without
\* Target (of those that have the Name and the text or Default, so that the
\* failure is that of the missing Target).
C9_NeverFails ==
    (pc = "raised" /\ idx < Len(configs)) =>
        ~(/\ Get(configs[idx + 1], "Type") \in {"Port", "Path", "Devices", "Variable", "Label"}
          /\ "Target" \notin DOMAIN configs[idx + 1].attrib
          /\ ~LacksNameOrValue(configs[idx + 1]))

\* C9 witness: a Path entry without Target has left the volume "/mnt:None:ro"
\* and the entry after it has been placed.
C9_Witness ==
    /\ pc = "configs" /\ idx = 2
    /\ "Target" \notin DOMAIN configs[1].attrib
    /\ volumes = <<"/mnt:None:ro">>
    /\ None \in DOMAIN environment

\* C10: the compose file is truncated before the assembly starts and
\* nothing is written to it before the whole document is assembled; a run
\* in which the assembly raises leaves the file empty, with neither a part
\* of a document nor its prior content; the file holds a document only at
\* the end of a run, and then the assembled one.
C10_WriteOrdering ==
    /\ pc = "ready" => file = PriorFile
    /\ Assembling => file = [data |-> "empty", document |-> EmptyDict]
    /\ pc = "raised" => file = [data |-> "empty", document |-> EmptyDict]
    /\ file.data = "document" =>
           /\ pc = "done"
           /\ file.document =
                  [version |-> "3.7",
                   services |-> services(tree, ports, volumes, environment, labels, devices),
                   networks |-> networks(tree)]

\* C10 witness: the first Config entry has been placed and the second, a
\* Port whose value is no integer, has ended the run; the file is empty.
C10_Witness ==
    /\ pc = "raised" /\ error = "ValueError" /\ idx = 1
    /\ file.data = "empty"

=============================================================================
